---- MODULE Spec2Model ----
(***************************************************************************)
(* Model of the three text extraction scripts                              *)
(*   src/script/extract_docx_text.py                                       *)
(*   src/script/extract_html_text.py                                       *)
(*   src/script/extract_pdf_text.py                                        *)
(* A Python str is a sequence of characters; a character is a token such   *)
(* as "a", "\n" or "U+00E0" whose code point is given by Ord.              *)
(***************************************************************************)
EXTENDS Integers, Sequences, FiniteSets, TLC

VARIABLES
    raw,              \* clean_text: the text first handed to clean_text
    text,             \* clean_text: the current value of its `text`
    prev,             \* clean_text: the argument of the latest call
    passes,           \* clean_text: number of calls made so far
    doc,              \* extract_text_from_html: the parsed document (soup)
    html_raw,         \* extract_text_from_html: `text` before cleaning
    html_rule,        \* extract_text_from_html: the branch that produced it
    html_text,        \* extract_text_from_html: the value returned
    format,           \* main: which of the three scripts is running
    files,            \* process_all_*_files: the globbed file list
    idx,              \* process_all_*_files: loop position in the list
    extracted_texts,  \* process_all_*_files: the result dict, insertion ordered
    pc,               \* main: position in main()
    disk,             \* the output directory: name of a text file -> content
    csv,              \* the output directory: name of a CSV file -> rows
    stages,           \* the output stages main() has run, in order
    runs              \* the scripts run before this one: format and result dict

vars == <<raw, text, prev, passes, doc, html_raw, html_rule, html_text,
          format, files, idx, extracted_texts, pc, disk, csv, stages, runs>>

cleanVars == <<raw, text, prev, passes>>
htmlVars  == <<doc, html_raw, html_rule, html_text>>
batchVars == <<format, files, idx, extracted_texts, pc, disk, csv, stages, runs>>

(***************************************************************************)
(* Bounds                                                                  *)
(***************************************************************************)
MaxLen == 3
MaxParas == 2
MaxFiles == 3
MaxRunFiles == 1

(***************************************************************************)
(* Characters                                                              *)
(***************************************************************************)
\* The characters the inputs are drawn from, with their code points.
Ord ==
    ( "a" :> 97 @@ "X" :> 88 @@ "Y" :> 89 @@ "_" :> 95 @@ "U+00E0" :> 224 @@ "U+1EFA" :> 7930
   @@ " " :> 32 @@ "\n" :> 10 @@ "U+1680" :> 5760
   @@ "U+037E" :> 894
   @@ "." :> 46 @@ "," :> 44 @@ "!" :> 33 @@ "?" :> 63 @@ ";" :> 59 @@ ":" :> 58
   @@ "(" :> 40 @@ ")" :> 41 @@ "\"" :> 34 @@ "'" :> 39 @@ "U+2026" :> 8230
   @@ "#" :> 35 @@ "U+201C" :> 8220
   @@ "H" :> 72 @@ "e" :> 101 @@ "l" :> 108 @@ "o" :> 111 @@ "w" :> 119
   @@ "r" :> 114 @@ "d" :> 100 )

\* re's \w on str: Unicode alphanumerics and the underscore.
IsWord(c) ==
    c \in {"a", "X", "Y", "_", "U+00E0", "U+1EFA", "H", "e", "l", "o", "w", "r", "d"}

\* re's \s on str, and str.strip()'s whitespace: str.isspace().
IsSpace(c) == c \in {" ", "\n", "U+1680"}

\* A range lo-hi inside a character class.
InRange(c, lo, hi) == Ord[c] >= lo /\ Ord[c] <= hi

\* The literal characters of the class, after the two \u ranges. Python joins
\* the adjacent literals r'[^...()""' and '…]': the two apostrophes written
\* in the source are string delimiters, not members of the class.
ClassLiterals == {".", ",", "!", "?", ";", ":", "(", ")", "\"", "U+2026"}

\* [^\w\sÀ-ỹẠ-ỹ.,!?;:()""…] matches c
MatchesNegatedClass(c) ==
    ~ ( \/ IsWord(c)
        \/ IsSpace(c)
        \/ InRange(c, 192, 7929)
        \/ InRange(c, 7840, 7929)
        \/ c \in ClassLiterals )

(***************************************************************************)
(* clean_text                                                              *)
(***************************************************************************)
\* re.sub(r'[^...]', ' ', text)
SubDisallowed(t) ==
    [i \in 1..Len(t) |-> IF MatchesNegatedClass(t[i]) THEN " " ELSE t[i]]

\* re.sub(r'\s+', ' ', text): every maximal run of whitespace becomes " "
RECURSIVE SubWhitespaceRuns(_)
SubWhitespaceRuns(t) ==
    IF t = <<>> THEN <<>>
    ELSE IF IsSpace(Head(t))
         THEN IF Len(t) >= 2 /\ IsSpace(t[2])
              THEN SubWhitespaceRuns(Tail(t))
              ELSE <<" ">> \o SubWhitespaceRuns(Tail(t))
         ELSE <<Head(t)>> \o SubWhitespaceRuns(Tail(t))

RECURSIVE LStrip(_)
LStrip(t) ==
    IF t # <<>> /\ IsSpace(Head(t)) THEN LStrip(Tail(t)) ELSE t

RECURSIVE RStrip(_)
RStrip(t) ==
    IF t # <<>> /\ IsSpace(t[Len(t)]) THEN RStrip(SubSeq(t, 1, Len(t) - 1)) ELSE t

\* text.strip()
Strip(t) == RStrip(LStrip(t))

\* strip() called first, before the two substitutions.
clean_text_stripfirst(t) == SubWhitespaceRuns(SubDisallowed(Strip(t)))

\* A forgotten substitution step.
clean_text_nosub(t) == Strip(SubWhitespaceRuns(t))

\* A forgotten strip().
clean_text_nostrip(t) == SubWhitespaceRuns(SubDisallowed(t))

clean_text(t) == Strip(SubWhitespaceRuns(SubDisallowed(t)))

(***************************************************************************)
(* Specification of clean_text alone: any text of up to MaxLen characters  *)
(* is cleaned, and the result is cleaned again.                            *)
(***************************************************************************)
\* The characters the texts handed to clean_text alone are made of: one or
\* more of each class. The letters left out are of the class of "a" and occur
\* in the texts of the batch.
Alphabet == DOMAIN Ord \ {"H", "e", "l", "o", "w", "r", "d"}

Texts == UNION {[1..n -> Alphabet] : n \in 0..MaxLen}

MaxPasses == 2

\* The state of the HTML extractor while it is not the one running.
NoDoc ==
    [readable |-> FALSE, has_script |-> FALSE, has_body |-> FALSE,
     has_article |-> FALSE, paras |-> <<>>, story |-> "none"]

HtmlIdle ==
    /\ doc = NoDoc
    /\ html_raw = <<>>
    /\ html_rule = "none"
    /\ html_text = <<>>

BatchIdle ==
    /\ format = "none"
    /\ files = <<>>
    /\ idx = 0
    /\ extracted_texts = <<>>
    /\ pc = "idle"
    /\ disk = <<>>
    /\ csv = <<>>
    /\ stages = <<>>
    /\ runs = <<>>

InitClean ==
    /\ raw \in Texts
    /\ text = raw
    /\ prev = raw
    /\ passes = 0
    /\ HtmlIdle
    /\ BatchIdle

Clean ==
    /\ passes < MaxPasses
    /\ prev' = text
    /\ text' = clean_text(text)
    /\ passes' = passes + 1
    /\ UNCHANGED <<raw, htmlVars, batchVars>>

NextClean == Clean

SpecClean == InitClean /\ [][NextClean]_vars

(***************************************************************************)
(* extract_text_from_html                                                  *)
(* A document is what BeautifulSoup's calls return on it:                  *)
(*   readable    open(), read() and the parser raise nothing               *)
(*   has_script  a <script> or <style> element with text                   *)
(*   has_body    soup.find('body') finds an element                        *)
(*   has_article soup.find('article') finds an element                     *)
(*   paras       p.get_text() of the <p> elements of that article, in order*)
(*   story       "div": a <div> has class story-content; "other": only an  *)
(*               element that is not a <div> has it; "none": no element    *)
(***************************************************************************)
TitleText  == <<"X", "Y">>
StoryText  == <<"\n", "Y", ".">>
ScriptText == <<"#", "a">>

\* '\n'.join(parts)
RECURSIVE Join(_, _)
Join(parts, sep) ==
    IF parts = <<>> THEN <<>>
    ELSE IF Len(parts) = 1 THEN parts[1]
    ELSE parts[1] \o sep \o Join(Tail(parts), sep)

\* ''.join(parts)
Concat(parts) == Join(parts, <<>>)

\* for script in soup(["script", "style"]): script.decompose()
Decompose(d) == [d EXCEPT !.has_script = FALSE]

\* get_text() of everything below <body> (or of the top level without one)
ContentText(d) ==
    Concat(d.paras)
    \o (IF d.story # "none" THEN StoryText ELSE <<>>)
    \o (IF d.has_script THEN ScriptText ELSE <<>>)

\* soup.get_text()
DocumentText(d) == TitleText \o ContentText(d)

\* The loop over article.find_all('p'): the stripped texts that are not empty.
RECURSIVE ArticleTextParts(_)
ArticleTextParts(ps) ==
    IF ps = <<>> THEN <<>>
    ELSE (IF Strip(Head(ps)) # <<>> THEN <<Strip(Head(ps))>> ELSE <<>>)
         \o ArticleTextParts(Tail(ps))

\* A chain that looks for the story-content element before the article.
SelectRule_storyfirst(d) ==
    IF d.story = "div" THEN "story"
    ELSE IF d.has_article THEN "article"
    ELSE IF d.has_body THEN "body"
    ELSE "document"

\* The branch of the if/else chain that assigns `text`.
SelectRule(d) ==
    IF d.has_article THEN "article"
    ELSE IF d.story = "div" THEN "story"
    ELSE IF d.has_body THEN "body"
    ELSE "document"

\* The value each branch assigns to `text`.
RuleText(rule, d) ==
    CASE rule = "article"  -> Join(ArticleTextParts(d.paras), <<"\n">>)
      [] rule = "story"    -> StoryText
      [] rule = "body"     -> ContentText(d)
      [] rule = "document" -> DocumentText(d)

ParaTexts == {<<"a">>, <<" ", "X", "\n">>, <<" ">>}

Docs ==
    [readable : BOOLEAN, has_script : BOOLEAN, has_body : BOOLEAN,
     has_article : {FALSE}, paras : {<<>>}, story : {"none", "div", "other"}]
    \cup
    [readable : BOOLEAN, has_script : BOOLEAN, has_body : BOOLEAN,
     has_article : {TRUE},
     paras : UNION {[1..n -> ParaTexts] : n \in 0..MaxParas},
     story : {"none", "div", "other"}]

CleanIdle ==
    /\ raw = <<>>
    /\ text = <<>>
    /\ prev = <<>>
    /\ passes = 0

InitHtml ==
    /\ doc \in Docs
    /\ html_raw = <<>>
    /\ html_rule = "none"
    /\ html_text = <<>>
    /\ CleanIdle
    /\ BatchIdle

\* extract_text_from_html on a file that is read and parsed
ExtractHtml ==
    /\ html_rule = "none"
    /\ doc.readable
    /\ LET soup == Decompose(doc)
            rule == SelectRule(soup)
       IN /\ html_rule' = rule
          /\ html_raw' = RuleText(rule, soup)
          /\ html_text' = clean_text(RuleText(rule, soup))
    /\ UNCHANGED <<doc, cleanVars, batchVars>>

\* extract_text_from_html on a file whose reading or parsing raises
ExtractHtmlRaises ==
    /\ html_rule = "none"
    /\ ~ doc.readable
    /\ html_rule' = "except"
    /\ html_raw' = <<>>
    /\ html_text' = <<>>
    /\ UNCHANGED <<doc, cleanVars, batchVars>>

NextHtml == ExtractHtml \/ ExtractHtmlRaises

SpecHtml == InitHtml /\ [][NextHtml]_vars

(***************************************************************************)
(* The batch: process_all_*_files and main of the three scripts            *)
(* A source file is [path, ok, segs, doc]: its path relative to input_dir  *)
(* as str() gives it, whether reading and parsing it raises nothing, the   *)
(* paragraph texts (DOCX) or page texts (PDF) the library returns, and the *)
(* parsed document (HTML).                                                 *)
(***************************************************************************)
Formats == {"docx", "html", "pdf"}

\* str.replace(old, new): non-overlapping occurrences, left to right
RECURSIVE Replace(_, _, _)
Replace(s, old, new) ==
    IF Len(s) < Len(old) THEN s
    ELSE IF SubSeq(s, 1, Len(old)) = old
         THEN new \o Replace(SubSeq(s, Len(old) + 1, Len(s)), old, new)
         ELSE <<Head(s)>> \o Replace(Tail(s), old, new)

\* str.rfind("."): the last index of a dot, 0 when there is none
LastDot(name) ==
    LET dots == {i \in 1..Len(name) : name[i] = "."}
    IN IF dots = {} THEN 0 ELSE CHOOSE i \in dots : \A j \in dots : j <= i

\* Path.stem of a file name: the name without its last suffix
Stem(name) ==
    LET i == LastDot(name)
    IN IF i > 1 /\ i < Len(name) THEN SubSeq(name, 1, i - 1) ELSE name

\* The key a file is recorded under.
FileKey(fmt, path) ==
    CASE fmt = "docx" -> Stem(path)
      [] fmt = "html" ->
            Replace(Replace(Replace(Replace(path, <<"\\">>, <<"_">>),
                                    <<"/">>, <<"_">>),
                            <<".", "h", "t", "m">>, <<>>),
                    <<".", "h", "t", "m", "l">>, <<>>)
      [] fmt = "pdf" ->
            Replace(Replace(Replace(path, <<"\\">>, <<"_">>), <<"/">>, <<"_">>),
                    <<".", "p", "d", "f">>, <<>>)

\* The loop over doc.paragraphs: the stripped texts that are not empty.
RECURSIVE DocxTextParts(_)
DocxTextParts(ps) ==
    IF ps = <<>> THEN <<>>
    ELSE (IF Strip(Head(ps)) # <<>> THEN <<Strip(Head(ps))>> ELSE <<>>)
         \o DocxTextParts(Tail(ps))

\* The loop over pdf_reader.pages: the page texts that are not blank, as
\* they are.
RECURSIVE PdfTextParts(_)
PdfTextParts(ps) ==
    IF ps = <<>> THEN <<>>
    ELSE (IF Strip(Head(ps)) # <<>> THEN <<Head(ps)>> ELSE <<>>)
         \o PdfTextParts(Tail(ps))

\* `text` before cleaning, for a file that is read and parsed.
RawText(fmt, f) ==
    CASE fmt = "docx" -> Join(DocxTextParts(f.segs), <<"\n">>)
      [] fmt = "pdf"  -> Join(PdfTextParts(f.segs), <<"\n">>)
      [] fmt = "html" -> RuleText(SelectRule(Decompose(f.doc)), Decompose(f.doc))

\* extract_text_from_docx / _html / _pdf: the cleaned text, "" on an exception
ExtractText(fmt, f) ==
    IF f.ok THEN clean_text(RawText(fmt, f)) ELSE <<>>

\* The keys of the result dict, in insertion order.
Keys(d) == [i \in 1..Len(d) |-> d[i].key]

KeySet(d) == {d[i].key : i \in 1..Len(d)}

\* d[k] = v on an insertion-ordered dict: a present key keeps its position
DictSet(d, k, v) ==
    IF k \in KeySet(d)
    THEN [i \in 1..Len(d) |-> IF d[i].key = k THEN [key |-> k, text |-> v] ELSE d[i]]
    ELSE Append(d, [key |-> k, text |-> v])

\* Names of the files the output stages write.
TxtName(key) == key \o <<".", "t", "x", "t">>

CombinedName(fmt) ==
    CASE fmt = "docx" -> <<"c", "o", "m", "b", "i", "n", "e", "d", "_", "n", "o", "v", "e", "l", "_", "t", "e", "x", "t", ".", "t", "x", "t">>
      [] fmt = "html" -> <<"c", "o", "m", "b", "i", "n", "e", "d", "_", "h", "t", "m", "l", "_", "n", "o", "v", "e", "l", "_", "t", "e", "x", "t", ".", "t", "x", "t">>
      [] fmt = "pdf"  -> <<"c", "o", "m", "b", "i", "n", "e", "d", "_", "p", "d", "f", "_", "n", "o", "v", "e", "l", "_", "t", "e", "x", "t", ".", "t", "x", "t">>

MetadataName(fmt) ==
    CASE fmt = "docx" -> "metadata.csv"
      [] fmt = "html" -> "html_metadata.csv"
      [] fmt = "pdf"  -> "pdf_metadata.csv"

\* open(name, 'w').write(content)
WriteFile(d, name, content) ==
    [n \in DOMAIN d \cup {name} |-> IF n = name THEN content ELSE d[n]]

\* save_extracted_texts: one write per item, in the dict's order
RECURSIVE SaveAll(_, _)
SaveAll(d, items) ==
    IF items = <<>> THEN d
    ELSE SaveAll(WriteFile(d, TxtName(Head(items).key), Head(items).text),
                 Tail(items))

\* f"=== {filename} ===\n{text}\n"
Block(item) ==
    <<"=", "=", "=", " ">> \o item.key \o <<" ", "=", "=", "=">> \o <<"\n">> \o item.text \o <<"\n">>

\* The blocks joined with nothing between them.
CombinedText_nosep(items) ==
    Concat([i \in 1..Len(items) |-> Block(items[i])])

\* create_combined_dataset: '\n'.join(all_text)
CombinedText(items) ==
    Join([i \in 1..Len(items) |-> Block(items[i])], <<"\n">>)

\* The spaces counted instead of the words between them.
WordCount_spaces(t) == Cardinality({i \in 1..Len(t) : IsSpace(t[i])})

\* len(text.split()): the number of maximal runs of non-whitespace
WordCount(t) ==
    Cardinality({i \in 1..Len(t) :
                    ~ IsSpace(t[i]) /\ (i = 1 \/ IsSpace(t[i - 1]))})

\* len(text.split('\n'))
LineCount(t) == Cardinality({i \in 1..Len(t) : t[i] = "\n"}) + 1

\* create_metadata: one row per item
MetadataRows(items) ==
    [i \in 1..Len(items) |->
        [filename |-> items[i].key,
         character_count |-> Len(items[i].text),
         word_count |-> WordCount(items[i].text),
         line_count |-> LineCount(items[i].text)]]

\* A main() that goes on to the output stages whatever the result.
MainReturnsEarly_never(results) == FALSE

\* main: `if not extracted_texts: ... return`
MainReturnsEarly(results) == results = <<>>

(***************************************************************************)
(* The source trees the batch is run on                                    *)
(***************************************************************************)
Paths(fmt) ==
    CASE fmt = "docx" -> { <<"a", ".", "d", "o", "c", "x">>, <<"b", ".", "d", "o", "c", "x">>, <<"a", ".", "b", ".", "d", "o", "c", "x">>, <<"d", "_", "a", ".", "d", "o", "c", "x">> }
      [] fmt = "html" -> { <<"a", ".", "h", "t", "m">>, <<"a", ".", "h", "t", "m", "l">>, <<"a", "l", ".", "h", "t", "m">>, <<"d", "/", "a", ".", "h", "t", "m">>, <<"d", "_", "a", ".", "h", "t", "m">> }
      [] fmt = "pdf"  -> { <<"a", ".", "p", "d", "f">>, <<"d", "/", "a", ".", "p", "d", "f">>, <<"d", "_", "a", ".", "p", "d", "f">>, <<"d", "\\", "a", ".", "p", "d", "f">>, <<"b", ".", "p", "d", "f", "s", "/", "a", ".", "p", "d", "f">> }

\* The paths input_dir.rglob("*.html") yields (the others end in .htm).
IsDotHtml(path) ==
    Len(path) >= 5 /\ SubSeq(path, Len(path) - 4, Len(path)) = <<".", "h", "t", "m", "l">>

SegLists ==
    { << <<"#">> >>,
      << <<"X">> >>,
      << <<"Y">> >>,
      << <<"H", "e", "l", "l", "o", " ">>, <<" ">>, <<"w", "o", "r", "l", "d">> >> }

HtmlDocs ==
    { [readable |-> TRUE, has_script |-> TRUE, has_body |-> TRUE,
       has_article |-> TRUE, paras |-> <<>>, story |-> "div"],
      [readable |-> TRUE, has_script |-> FALSE, has_body |-> TRUE,
       has_article |-> TRUE, paras |-> << <<"X">> >>, story |-> "none"],
      [readable |-> TRUE, has_script |-> TRUE, has_body |-> TRUE,
       has_article |-> FALSE, paras |-> <<>>, story |-> "other"],
      [readable |-> TRUE, has_script |-> FALSE, has_body |-> FALSE,
       has_article |-> TRUE, paras |-> << <<"a", " ">>, <<" ">>, <<"X">> >>,
       story |-> "div"] }

\* What a file of the format can hold: one that raises, or a parsed one.
Contents(fmt) ==
    IF fmt = "html"
    THEN {[ok |-> FALSE, segs |-> <<>>, doc |-> NoDoc]}
         \cup {[ok |-> TRUE, segs |-> <<>>, doc |-> d] : d \in HtmlDocs}
    ELSE {[ok |-> FALSE, segs |-> <<>>, doc |-> NoDoc]}
         \cup {[ok |-> TRUE, segs |-> sl, doc |-> NoDoc] : sl \in SegLists}

SourceFiles(fmt) ==
    {[path |-> p, ok |-> c.ok, segs |-> c.segs, doc |-> c.doc] :
        p \in Paths(fmt), c \in Contents(fmt)}

\* The list glob/rglob returns: distinct paths in any order; for HTML the
\* .htm list comes before the .html list.
FileListsUpTo(fmt, max) ==
    {fl \in UNION {[1..n -> SourceFiles(fmt)] : n \in 0..max} :
        /\ \A i, j \in 1..Len(fl) : i # j => fl[i].path # fl[j].path
        /\ fmt = "html" =>
              \A i, j \in 1..Len(fl) :
                  (IsDotHtml(fl[i].path) /\ ~ IsDotHtml(fl[j].path)) => j < i}

FileLists(fmt) == FileListsUpTo(fmt, MaxFiles)

Init ==
    /\ format \in Formats
    /\ files \in FileLists(format)
    /\ idx = 0
    /\ extracted_texts = <<>>
    /\ pc = "process"
    /\ disk = <<>>
    /\ csv = <<>>
    /\ stages = <<>>
    /\ runs = <<>>
    /\ CleanIdle
    /\ HtmlIdle

\* One iteration of the loop of process_all_*_files
ProcessFile ==
    /\ pc = "process"
    /\ idx < Len(files)
    /\ LET f == files[idx + 1]
            t == ExtractText(format, f)
       IN extracted_texts' =
              IF t # <<>>
              THEN DictSet(extracted_texts, FileKey(format, f.path), t)
              ELSE extracted_texts
    /\ idx' = idx + 1
    /\ UNCHANGED <<format, files, pc, disk, csv, stages, runs, cleanVars, htmlVars>>

\* main: the loop is over and nothing was extracted
MainNoResults ==
    /\ pc = "process"
    /\ idx = Len(files)
    /\ MainReturnsEarly(extracted_texts)
    /\ pc' = "done"
    /\ UNCHANGED <<format, files, idx, extracted_texts, disk, csv, stages, runs,
                   cleanVars, htmlVars>>

\* main: save_extracted_texts
SaveExtractedTexts ==
    /\ pc = "process"
    /\ idx = Len(files)
    /\ ~ MainReturnsEarly(extracted_texts)
    /\ disk' = SaveAll(disk, extracted_texts)
    /\ stages' = Append(stages, "per_file")
    /\ pc' = "combined"
    /\ UNCHANGED <<format, files, idx, extracted_texts, csv, runs, cleanVars, htmlVars>>

\* main: create_combined_dataset
CreateCombinedDataset ==
    /\ pc = "combined"
    /\ disk' = WriteFile(disk, CombinedName(format), CombinedText(extracted_texts))
    /\ stages' = Append(stages, "combined")
    /\ pc' = "metadata"
    /\ UNCHANGED <<format, files, idx, extracted_texts, csv, runs, cleanVars, htmlVars>>

\* main: create_metadata
CreateMetadata ==
    /\ pc = "metadata"
    /\ csv' = WriteFile(csv, MetadataName(format), MetadataRows(extracted_texts))
    /\ stages' = Append(stages, "metadata")
    /\ pc' = "done"
    /\ UNCHANGED <<format, files, idx, extracted_texts, disk, runs, cleanVars, htmlVars>>

Next ==
    \/ ProcessFile
    \/ MainNoResults
    \/ SaveExtractedTexts
    \/ CreateCombinedDataset
    \/ CreateMetadata

Spec == Init /\ [][Next]_vars

(***************************************************************************)
(* The three scripts run one after another, in any order, each once, on    *)
(* its own input directory and on the one output directory data/clean.     *)
(***************************************************************************)
InitRuns ==
    /\ format \in Formats
    /\ files \in FileListsUpTo(format, MaxRunFiles)
    /\ idx = 0
    /\ extracted_texts = <<>>
    /\ pc = "process"
    /\ disk = <<>>
    /\ csv = <<>>
    /\ stages = <<>>
    /\ runs = <<>>
    /\ CleanIdle
    /\ HtmlIdle

\* The formats whose script has run or is running.
FormatsRun == {runs[i].format : i \in 1..Len(runs)} \cup {format}

\* main of one script has returned and the main of another starts: a new
\* extractor on the same output_dir, which mkdir(exist_ok=True) leaves as is.
NextRun ==
    /\ pc = "done"
    /\ \E fmt \in Formats \ FormatsRun :
          \E fl \in FileListsUpTo(fmt, MaxRunFiles) :
              /\ format' = fmt
              /\ files' = fl
    /\ runs' = Append(runs, [format |-> format, results |-> extracted_texts])
    /\ idx' = 0
    /\ extracted_texts' = <<>>
    /\ stages' = <<>>
    /\ pc' = "process"
    /\ UNCHANGED <<disk, csv, cleanVars, htmlVars>>

\* main of the last of the three scripts has returned
LastRunEnds ==
    /\ pc = "done"
    /\ FormatsRun = Formats
    /\ runs' = Append(runs, [format |-> format, results |-> extracted_texts])
    /\ pc' = "finished"
    /\ UNCHANGED <<format, files, idx, extracted_texts, disk, csv, stages,
                   cleanVars, htmlVars>>

NextRuns == Next \/ NextRun \/ LastRunEnds

SpecRuns == InitRuns /\ [][NextRuns]_vars

(***************************************************************************)
(* Properties of clean_text                                                *)
(***************************************************************************)
\* Number of occurrences of character c in t.
Count(c, t) == Cardinality({i \in 1..Len(t) : t[i] = c})

\* The punctuation marks the specification lists as preserved.
ListedPunctuation ==
    {".", ",", "!", "?", ";", ":", "(", ")", "\"", "'", "U+2026"}

\* The characters of the alphabet that are punctuation marks (Unicode
\* general category P*).
IsPunctuation(c) ==
    c \in ListedPunctuation \cup {"_", "U+037E", "#", "U+201C"}

\* The allowed set as the specification states it.
InAllowedSet(c) ==
    \/ IsWord(c)
    \/ IsSpace(c)
    \/ InRange(c, 192, 7929)
    \/ InRange(c, 7840, 7929)
    \/ c \in ListedPunctuation

\* C1: clean_text is idempotent: cleaning the result of clean_text again
\* returns it unchanged.
C1_Idempotent == passes >= 2 => text = prev

\* A second call whose argument is a cleaned text that the first call had to
\* change and did not empty.
C1_Witness ==
    /\ passes = 2
    /\ prev # raw
    /\ prev # <<>>
    /\ text = prev

\* C2: every occurrence of a listed punctuation mark in the input is kept in
\* the output, and no punctuation mark outside the list is kept.
C2_ExactlyListedPunctuationKept ==
    passes = 1 =>
        \A c \in Alphabet :
            /\ c \in ListedPunctuation => Count(c, text) = Count(c, raw)
            /\ (IsPunctuation(c) /\ c \notin ListedPunctuation) => Count(c, text) = 0

\* C3: every character of clean_text(T) is a word character, a whitespace
\* character, a character of the two Unicode ranges or a listed punctuation
\* mark.
C3_OnlyAllowedCharacters ==
    passes >= 1 => \A i \in 1..Len(text) : InAllowedSet(text[i])

\* A cleaned text that is not empty and whose input held a character outside
\* the allowed set.
C3_Witness ==
    /\ passes = 1
    /\ \E i \in 1..Len(raw) : ~ InAllowedSet(raw[i])
    /\ text # <<>>

\* C4: clean_text(T) has no two consecutive whitespace characters, does not
\* start or end with one, and its only whitespace is the single space.
C4_WhitespaceNormalised ==
    passes >= 1 =>
        /\ \A i \in 1..Len(text) - 1 : ~ (IsSpace(text[i]) /\ IsSpace(text[i + 1]))
        /\ text # <<>> => (~ IsSpace(text[1]) /\ ~ IsSpace(text[Len(text)]))
        /\ \A i \in 1..Len(text) : IsSpace(text[i]) => text[i] = " "

\* A cleaned text that keeps a single interior space where the input had a
\* newline.
C4_Witness ==
    /\ passes = 1
    /\ \E i \in 1..Len(raw) : raw[i] = "\n"
    /\ \E i \in 1..Len(text) : text[i] = " "

(***************************************************************************)
(* Properties of the batch                                                 *)
(***************************************************************************)
ScanDone == pc # "idle" /\ idx = Len(files)

\* The files whose extraction returned non-empty text.
NonEmptyFiles == {i \in 1..Len(files) : ExtractText(format, files[i]) # <<>>}

EndsWith(s, suffix) ==
    Len(s) >= Len(suffix) /\ SubSeq(s, Len(s) - Len(suffix) + 1, Len(s)) = suffix

DropLast(s, n) == SubSeq(s, 1, Len(s) - n)

\* The key the specification gives a file of a recursive scan: the relative
\* path with every separator replaced by "_" and the extension taken off the
\* end, nothing else changed.
StatedKey(path) ==
    LET flat == [i \in 1..Len(path) |->
                    IF path[i] \in {"/", "\\"} THEN "_" ELSE path[i]]
    IN IF EndsWith(flat, <<".", "h", "t", "m", "l">>) THEN DropLast(flat, 5)
       ELSE IF EndsWith(flat, <<".", "h", "t", "m">>) THEN DropLast(flat, 4)
       ELSE IF EndsWith(flat, <<".", "p", "d", "f">>) THEN DropLast(flat, 4)
       ELSE flat

\* C5: after the scan the mapping has a key for a file if and only if that
\* file's extraction returned non-empty text, and no value is empty.
C5_KeyIffNonEmptyExtraction ==
    ScanDone =>
        /\ \A i \in 1..Len(files) :
               FileKey(format, files[i].path) \in KeySet(extracted_texts)
                   <=> i \in NonEmptyFiles
        /\ \A j \in 1..Len(extracted_texts) : extracted_texts[j].text # <<>>

\* C6: after the scan the mapping has exactly one entry per file whose
\* extraction returned non-empty text: distinct files never share a key.
C6_OneEntryPerNonEmptyFile ==
    ScanDone => Len(extracted_texts) = Cardinality(NonEmptyFiles)

\* C7: in the recursive scans (HTML, PDF) a file is recorded under its
\* relative path with the separators flattened to "_" and the extension
\* stripped from the end.
C7_KeyIsFlattenedPathWithoutExtension ==
    (ScanDone /\ format \in {"html", "pdf"}) =>
        \A i \in NonEmptyFiles : StatedKey(files[i].path) \in KeySet(extracted_texts)

\* C9: with zero usable results main writes nothing and runs no output
\* stage; with at least one result it runs per-file, combined, metadata in
\* that order.
C9_NoOutputWithoutResults ==
    /\ (ScanDone /\ NonEmptyFiles = {}) =>
           (extracted_texts = <<>> /\ stages = <<>> /\ disk = <<>> /\ csv = <<>>)
    /\ extracted_texts = <<>> => (stages = <<>> /\ disk = <<>> /\ csv = <<>>)
    /\ \E n \in 0..3 : stages = SubSeq(<<"per_file", "combined", "metadata">>, 1, n)
    /\ (pc = "done" /\ extracted_texts # <<>>) =>
           /\ stages = <<"per_file", "combined", "metadata">>
           /\ \A k \in KeySet(extracted_texts) : TxtName(k) \in DOMAIN disk
           /\ CombinedName(format) \in DOMAIN disk
           /\ MetadataName(format) \in DOMAIN csv

\* A finished run over two files, one that raised and one that cleaned to
\* the empty text, which wrote nothing.
C9_Witness ==
    /\ pc = "done"
    /\ Len(files) >= 2
    /\ \E i \in 1..Len(files) : ~ files[i].ok
    /\ \E i \in 1..Len(files) : files[i].ok /\ ExtractText(format, files[i]) = <<>>
    /\ stages = <<>>
    /\ disk = <<>>

\* The content the specification gives the combined file: for each entry in
\* order the lines "=== key ===" and the text, each ended by a newline, with
\* one more newline before every block but the first.
RECURSIVE StatedCombined(_, _)
StatedCombined(items, i) ==
    IF i > Len(items) THEN <<>>
    ELSE (IF i > 1 THEN <<"\n">> ELSE <<>>)
         \o <<"=", "=", "=", " ">> \o items[i].key \o <<" ", "=", "=", "=">> \o <<"\n">>
         \o items[i].text \o <<"\n">>
         \o StatedCombined(items, i + 1)

\* C10: the combined file holds the blocks "=== ki ===\nti\n" in insertion
\* order with one blank line between consecutive blocks and nothing after the
\* last; for keys a then b with texts X and Y it is
\* "=== a ===\nX\n\n=== b ===\nY\n".
C10_CombinedContent ==
    pc \in {"metadata", "done"} /\ stages # <<>> =>
        /\ disk[CombinedName(format)] = StatedCombined(extracted_texts, 1)
        /\ (/\ Keys(extracted_texts) = << <<"a">>, <<"b">> >>
            /\ extracted_texts[1].text = <<"X">>
            /\ extracted_texts[2].text = <<"Y">>)
           => disk[CombinedName(format)] = <<"=", "=", "=", " ", "a", " ", "=", "=", "=", "\n", "X", "\n", "\n", "=", "=", "=", " ", "b", " ", "=", "=", "=", "\n", "Y", "\n">>

\* The run over a.docx and b.docx with texts X and Y, after the combined
\* file has been written.
C10_Witness ==
    /\ pc = "done"
    /\ Keys(extracted_texts) = << <<"a">>, <<"b">> >>
    /\ extracted_texts[1].text = <<"X">>
    /\ extracted_texts[2].text = <<"Y">>
    /\ CombinedName(format) \in DOMAIN disk

\* The whitespace-separated tokens of a text.
RECURSIVE Tokens(_)
Tokens(t) ==
    LET u == LStrip(t)
        ends == {i \in 1..Len(u) : IsSpace(u[i])}
        n == IF ends = {} THEN Len(u)
             ELSE (CHOOSE i \in ends : \A j \in ends : i <= j) - 1
    IN IF u = <<>> THEN <<>>
       ELSE <<SubSeq(u, 1, n)>> \o Tokens(SubSeq(u, n + 1, Len(u)))

\* The newline-separated segments of a text, counted.
SegmentCount(t) == Count("\n", t) + 1

MetadataWritten == pc = "done" /\ stages # <<>>

\* C11: in every metadata row line_count is the number of newline-separated
\* segments the file's extracted text had before cleaning.
C11_LineCountOfRawText ==
    MetadataWritten =>
        \A j \in 1..Len(csv[MetadataName(format)]) :
            LET row == csv[MetadataName(format)][j]
            IN \E i \in NonEmptyFiles :
                  /\ FileKey(format, files[i].path) = row.filename
                  /\ ExtractText(format, files[i]) = extracted_texts[j].text
                  /\ row.line_count = SegmentCount(RawText(format, files[i]))

\* C12: the metadata table has one row per key of the mapping, in its order,
\* with character_count the length of the cleaned text and word_count the
\* number of its whitespace-separated tokens; two files that clean to empty
\* and one that cleans to "Hello world" give one row with word_count 2.
C12_MetadataRows ==
    MetadataWritten =>
        LET rows == csv[MetadataName(format)]
        IN /\ Len(rows) = Len(extracted_texts)
           /\ \A j \in 1..Len(rows) :
                  /\ rows[j].filename = extracted_texts[j].key
                  /\ rows[j].character_count = Len(extracted_texts[j].text)
                  /\ rows[j].word_count = Len(Tokens(extracted_texts[j].text))
           /\ (/\ Len(files) = 3
               /\ Cardinality(NonEmptyFiles) = 1
               /\ \E i \in NonEmptyFiles :
                      ExtractText(format, files[i]) = <<"H", "e", "l", "l", "o", " ", "w", "o", "r", "l", "d">>)
              => (Len(rows) = 1 /\ rows[1].word_count = 2)

\* The finished run over one file that raised, one that cleaned to empty and
\* one that cleaned to "Hello world".
C12_Witness ==
    /\ MetadataWritten
    /\ Len(files) = 3
    /\ \E i \in 1..Len(files) : ~ files[i].ok
    /\ \E i \in 1..Len(files) : files[i].ok /\ ExtractText(format, files[i]) = <<>>
    /\ \E i \in NonEmptyFiles : ExtractText(format, files[i]) = <<"H", "e", "l", "l", "o", " ", "w", "o", "r", "l", "d">>
    /\ Len(csv[MetadataName(format)]) = 1

\* C13: once the DOCX, HTML and PDF runs have all finished, in whatever
\* order, for every key k of any run's result mapping the file k.txt holds
\* exactly the text that run recorded for k.
C13_PerFileOutputsSurviveOtherRuns ==
    pc = "finished" =>
        \A r \in 1..Len(runs) :
            \A j \in 1..Len(runs[r].results) :
                /\ TxtName(runs[r].results[j].key) \in DOMAIN disk
                /\ disk[TxtName(runs[r].results[j].key)] = runs[r].results[j].text

(***************************************************************************)
(* Properties of extract_text_from_html                                    *)
(***************************************************************************)
\* What each rule of the chain finds in the document.
FoundArticleParas == doc.has_article /\ ArticleTextParts(doc.paras) # <<>>
FoundStoryElement == doc.story # "none"
FoundBody         == doc.has_body

\* C8 as stated: strict fallback (a) non-empty <p> of <article>, (b) first
\* element with class story-content, (c) <body>, (d) whole document; a later
\* rule is applied exactly when all earlier rules found nothing.
C8_StrictFallbackAsStated ==
    html_rule \in {"article", "story", "body", "document"} =>
        /\ html_rule = "article" <=> FoundArticleParas
        /\ html_rule = "story" <=> (~ FoundArticleParas /\ FoundStoryElement)
        /\ html_rule = "body" <=>
               (~ FoundArticleParas /\ ~ FoundStoryElement /\ FoundBody)
        /\ html_rule = "document" <=>
               (~ FoundArticleParas /\ ~ FoundStoryElement /\ ~ FoundBody)
        /\ html_raw = RuleText(html_rule, Decompose(doc))

\* C8 amended: the chain is decided by which elements exist: (a) whenever an
\* <article> exists, its non-empty <p> texts (none gives the empty text),
\* (b) else the first <div> of class story-content, (c) else <body>, (d) else
\* the whole document; with article paragraphs and a story-content element
\* both present the text is the article paragraphs alone.
C8_FallbackByElementPresence ==
    html_rule \in {"article", "story", "body", "document"} =>
        /\ html_rule = "article" <=> doc.has_article
        /\ html_rule = "story" <=> (~ doc.has_article /\ doc.story = "div")
        /\ html_rule = "body" <=>
               (~ doc.has_article /\ doc.story # "div" /\ doc.has_body)
        /\ html_rule = "document" <=>
               (~ doc.has_article /\ doc.story # "div" /\ ~ doc.has_body)
        /\ html_raw = RuleText(html_rule, Decompose(doc))
        /\ (FoundArticleParas /\ FoundStoryElement) =>
               html_raw = Join(ArticleTextParts(doc.paras), <<"\n">>)

\* A document with two non-empty article paragraphs and a story-content div,
\* extracted from the paragraphs.
C8_Witness ==
    /\ html_rule = "article"
    /\ doc.story = "div"
    /\ Len(ArticleTextParts(doc.paras)) = 2
    /\ html_raw = Join(ArticleTextParts(doc.paras), <<"\n">>)

====
